---- MODULE Spec2Model ----
(***************************************************************************)
(* A model of the CoinEx screener bot (src/telegram_volume_bot.py and the  *)
(* minimal screener src/Telegram-volume-bot.py): symbol parsing, USD       *)
(* notional, 24h/4h change, best-record selection, priority tiers, and the *)
(* handlers that share FOUR_H_PCT_CACHE and LAST_ERROR.                    *)
(*                                                                         *)
(* Strings are sequences of characters.  A run of letters the program      *)
(* never looks inside ("USDT", "BTC") is written as one element, so        *)
(* "BTC/USDT:USDT" is <<"BTC", "/", "USDT", ":", "USDT">>.                 *)
(* Money and percentages are Python floats in the source; the model uses   *)
(* integers and draws inputs on which the float arithmetic is exact.       *)
(***************************************************************************)
EXTENDS Integers, Sequences, FiniteSets, TLC

VARIABLES
    pc,                 \* position of the modelled call or pipeline
    sym, split, parsed, \* safe_split_symbol / parse_symbol: argument, results
    mv, notional,       \* usd_notional: argument and result (once pc = "done")
    mv_spot, mv_fut, pct,  \* pct_change: arguments and result (once pc = "done")
    LAST_ERROR,         \* the global LAST_ERROR: None or a diagnostic string
    apply_exclusions,   \* load_best's argument
    best_spot, best_fut,   \* load_best's dicts, base -> MarketVol
    n_tickers,          \* payloads load_best has iterated over so far
    passed_spot, passed_fut,  \* history: <<base, notional>> of every payload
                              \* that passed load_best's filters
    set_order,          \* iteration order of set(best_spot) & set(best_fut)
    FOUR_H_PCT_CACHE,   \* the global cache, futures symbol -> 4h change
    p1, p2, p3,         \* build_priorities' result
    concurrent_updates, \* whether the Application runs handlers that overlap
    inv,                \* the handler invocations in progress, by slot
    run_count,          \* handler invocations started so far
    cache_writer,       \* history: the run that wrote each cache entry
    leaks,              \* history: <<reader, writer>> for each cache entry a
                        \* run was handed that another run wrote
    discards,           \* history: <<resetter, owner>> for each reset that
                        \* dropped entries of a run still in progress
    diag_report         \* what the last /diag reply showed as last_error

vars == <<pc, sym, split, parsed, mv, notional, mv_spot, mv_fut, pct,
          LAST_ERROR, apply_exclusions, best_spot, best_fut, n_tickers,
          passed_spot, passed_fut, set_order, FOUR_H_PCT_CACHE, p1, p2, p3,
          concurrent_updates, inv, run_count, cache_writer, leaks, discards,
          diag_report>>

\* Python's None: a value different from every string and every pair.
None == <<"None">>

\* Marks a result that has not been produced yet.
Pending == <<"pending">>

\* Marks a call that raised an exception.
Raised == <<"raise">>

----------------------------------------------------------------------------
(* Configuration, src/telegram_volume_bot.py:34-47 *)

P1_SPOT_MIN == 500000
P1_FUT_MIN == 5000000
P2_FUT_MIN == 2000000
P3_SPOT_MIN == 3000000

TOP_N_P1 == 10
TOP_N_P2 == 5
TOP_N_P3 == 5

STABLES == {<<"USD">>, <<"USDT">>, <<"USDC">>, <<"TUSD">>, <<"FDUSD">>,
            <<"USDD">>, <<"USDE">>, <<"DAI">>, <<"PYUSD">>}

EXCLUDE_BASES == {<<"BTC">>, <<"ETH">>, <<"XRP">>, <<"SOL">>, <<"DOGE">>,
                  <<"ADA">>, <<"PEPE">>, <<"LINK">>}

----------------------------------------------------------------------------
(* Strings *)

\* Index of the first occurrence of character c in s, 0 when there is none.
RECURSIVE Find(_, _, _)
Find(s, c, i) ==
    IF i > Len(s) THEN 0
    ELSE IF s[i] = c THEN i
    ELSE Find(s, c, i + 1)

\* s.split(c)[0]: the part before the first c, the whole of s without one.
SplitFirst(s, c) ==
    LET k == Find(s, c, 1)
    IN  IF k = 0 THEN s ELSE SubSeq(s, 1, k - 1)

\* s.split(c, 1) for an s that holds c: the parts before and after the first c.
SplitOnce(s, c) ==
    LET k == Find(s, c, 1)
    IN  <<SubSeq(s, 1, k - 1), SubSeq(s, k + 1, Len(s))>>

\* The number of occurrences of c in s; s.split(c) has one part more.
Count(s, c) == Cardinality({i \in 1..Len(s) : s[i] = c})

----------------------------------------------------------------------------
(* safe_split_symbol, src/telegram_volume_bot.py:64-68 *)

safe_split_symbol(s) ==
    IF s = None \/ s = <<>> THEN None
    ELSE LET pair == SplitFirst(s, ":")
         IN  IF Find(pair, "/", 1) = 0 THEN None
             ELSE SplitOnce(pair, "/")

(* parse_symbol, src/Telegram-volume-bot.py:37-40: None.split raises, and so
   does unpacking anything but two parts into (base, quote). *)
parse_symbol(s) ==
    IF s = None THEN Raised
    ELSE LET pair == SplitFirst(s, ":")
         IN  IF Count(pair, "/") # 1 THEN Raised
             ELSE SplitOnce(pair, "/")

----------------------------------------------------------------------------
(* MarketVol, src/telegram_volume_bot.py:52-62 *)

MarketVol(symbol, base, quote, last, open, percentage, base_vol, quote_vol, vwap) ==
    [symbol |-> symbol, base |-> base, quote |-> quote, last |-> last,
     open |-> open, percentage |-> percentage, base_vol |-> base_vol,
     quote_vol |-> quote_vol, vwap |-> vwap]

\* An absent record (Optional[MarketVol] = None).
NoMV == [none |-> TRUE]

(* usd_notional, src/telegram_volume_bot.py:83-88 *)
usd_notional(m) ==
    IF m = NoMV THEN 0
    ELSE IF m.quote \in STABLES /\ m.quote_vol # 0 /\ m.quote_vol > 0
         THEN m.quote_vol
    ELSE LET price == IF m.vwap # 0 /\ m.vwap > 0 THEN m.vwap ELSE m.last
         IN  IF price # 0 /\ m.base_vol # 0 THEN m.base_vol * price ELSE 0

\* (last - open) / open * 100, on inputs where the quotient is exact.
PctOf(last, open) == ((last - open) * 100) \div open

(* pct_change, src/telegram_volume_bot.py:90-97 *)
pct_change(s, f) ==
    IF s # NoMV /\ s.percentage # 0 THEN s.percentage
    ELSE IF f # NoMV /\ f.percentage # 0 THEN f.percentage
    ELSE LET m == IF s # NoMV THEN s ELSE f
         IN  IF m # NoMV /\ m.open # 0 /\ m.open > 0 /\ m.last # 0
             THEN PctOf(m.last, m.open)
             ELSE 0

----------------------------------------------------------------------------
(* Python dicts keep insertion order: a dict is a sequence of [key, value]
   entries, and assigning to a key that is present keeps its place. *)

DictKeys(d) == {d[i].key : i \in 1..Len(d)}

DictGet(d, k) ==
    IF k \in DictKeys(d)
    THEN d[CHOOSE i \in 1..Len(d) : d[i].key = k].value
    ELSE NoMV

DictSet(d, k, v) ==
    IF k \in DictKeys(d)
    THEN [i \in 1..Len(d) |-> IF d[i].key = k THEN [key |-> k, value |-> v] ELSE d[i]]
    ELSE Append(d, [key |-> k, value |-> v])

(* to_mv, src/telegram_volume_bot.py:70-81.  A ticker payload t is a record of
   the fields to_mv reads; a numeric field that is missing or None reads as 0
   ("or 0.0"), and last falls back to close. *)
to_mv(t) ==
    LET sp == safe_split_symbol(t.symbol)
    IN  IF sp = None THEN NoMV
        ELSE MarketVol(t.symbol, sp[1], sp[2],
                       IF t.last # 0 THEN t.last ELSE t.close,
                       t.open, t.percentage, t.baseVolume, t.quoteVolume, t.vwap)

(* The body of load_best's loops, src/telegram_volume_bot.py:127-134 (spot,
   with the stable-quote filter) and 139-145 (futures, without it): whether
   payload t passes the filters, and the dict after the iteration on t. *)
PassesFilters(t, excl, stable_only) ==
    LET m == to_mv(t)
    IN  /\ m # NoMV
        /\ stable_only => m.quote \in STABLES
        /\ ~(excl /\ m.base \in EXCLUDE_BASES)

KeepGreaterOrEqual(m, prev) ==
    prev = NoMV \/ usd_notional(m) >= usd_notional(prev)

KeepStrictlyGreater(m, prev) ==
    prev = NoMV \/ usd_notional(m) > usd_notional(prev)

BestStep(best, t, excl, stable_only) ==
    LET m == to_mv(t)
    IN  IF ~PassesFilters(t, excl, stable_only) THEN best
        ELSE IF KeepStrictlyGreater(m, DictGet(best, m.base))
             THEN DictSet(best, m.base, m)
             ELSE best

(* safe_fetch_tickers, src/telegram_volume_bot.py:113-121: the exchange's
   answer is a batch of payloads or an exception; an exception is recorded in
   LAST_ERROR and gives the empty batch. *)
FetchFailed(resp) == resp = Raised

ErrorString(what) == <<"Exception: ", what>>

----------------------------------------------------------------------------
(* compute_pct4h_for_symbol, src/telegram_volume_bot.py:150-169.  The cache is
   a function from futures symbols to percentages.  resp is what the exchange
   answers to fetch_ohlcv: Raised, or the closes of the candles (a close that
   is None reads as 0, "c[4] or 0.0"). *)

Pct4hOf(resp) ==
    IF resp = Raised THEN 0
    ELSE IF Len(resp) < 2 THEN 0
    ELSE LET close_now == resp[Len(resp)]
             close_4h_ago == IF Len(resp) >= 5 THEN resp[Len(resp) - 4] ELSE resp[1]
         IN  IF close_4h_ago # 0
             THEN ((close_now - close_4h_ago) * 100) \div close_4h_ago
             ELSE 0

\* The value the call returns: the cached one when there is one.
compute_pct4h_for_symbol(cache, fut_symbol, resp) ==
    IF fut_symbol \in DOMAIN cache THEN cache[fut_symbol] ELSE Pct4hOf(resp)

\* The cache after the calls for the symbols in syms, ohlcv[s] being the
\* exchange's answer for symbol s: every path of the function that does not
\* find the symbol in the cache stores its result there.
CacheAfter(cache, syms, ohlcv) ==
    cache @@ [s \in syms \ DOMAIN cache |-> Pct4hOf(ohlcv[s])]

----------------------------------------------------------------------------
(* build_priorities, src/telegram_volume_bot.py:172-207 *)

Min(a, b) == IF a < b THEN a ELSE b

\* rows[:n]
Take(rows, n) == SubSeq(rows, 1, Min(n, Len(rows)))

\* rows.sort(key=..., reverse=True): descending by key[i], the key of rows[i];
\* the sort is stable, rows of equal key keep their order.
SortDesc(rows, key) ==
    LET n == Len(rows)
        place == [i \in 1..n |->
                    1 + Cardinality({j \in 1..n : key[j] > key[i]})
                      + Cardinality({j \in 1..n : j < i /\ key[j] = key[i]})]
    IN  [p \in 1..n |-> rows[CHOOSE i \in 1..n : place[i] = p]]

\* rows.sort(key=...) without reverse=True.
SortByFutAscending(rows) ==
    SortDesc(rows, [i \in 1..Len(rows) |-> 0 - rows[i].fut_usd])

SortByFut(rows) == SortDesc(rows, [i \in 1..Len(rows) |-> rows[i].fut_usd])

SortBySpot(rows) == SortDesc(rows, [i \in 1..Len(rows) |-> rows[i].spot_usd])

RowSyms(rows) == {rows[i].sym : i \in 1..Len(rows)}

\* A row [base, fut_usd, spot_usd, pct_change, pct4h] for a base with spot
\* record s and futures record f (NoMV when the dict has none).
Row(base, s, f, cache, ohlcv) ==
    [sym |-> base,
     fut_usd |-> usd_notional(f),
     spot_usd |-> usd_notional(s),
     pct |-> pct_change(s, f),
     pct4h |-> IF f = NoMV THEN 0
               ELSE compute_pct4h_for_symbol(cache, f.symbol, ohlcv[f.symbol])]

\* lines 175-181: the bases of both dicts, in the iteration order of the set
\* set(best_spot) & set(best_fut), that meet the tier-1 floors.
P1Candidates(spot, fut, order) ==
    SelectSeq(order,
              LAMBDA base :
                  /\ base \notin EXCLUDE_BASES
                  /\ usd_notional(DictGet(fut, base)) >= P1_FUT_MIN
                  /\ usd_notional(DictGet(spot, base)) >= P1_SPOT_MIN)

\* used = {r[0] for r in p1_full}: every tier-1 candidate is marked used.
UsedAllOfP1(top, full) == RowSyms(full)

\* line 184: the bases marked used after tier 1.
UsedAfterP1(top, full) == RowSyms(top)

\* lines 186-192: the futures dict's bases, in its order, not used, not
\* excluded, that meet the tier-2 floor.
P2Candidates(fut, used) ==
    SelectSeq([i \in 1..Len(fut) |-> fut[i].key],
              LAMBDA base :
                  /\ base \notin used
                  /\ base \notin EXCLUDE_BASES
                  /\ usd_notional(DictGet(fut, base)) >= P2_FUT_MIN)

\* used = {r[0] for r in p2}: the bases of tier 1 are forgotten.
UsedOnlyP2(used, top, full) == RowSyms(top)

\* line 195: the bases marked used after tier 2.
UsedAfterP2(used, top, full) == used \cup RowSyms(top)

\* lines 197-203: the spot dict's bases, in its order, not used, not excluded,
\* that meet the tier-3 floor.
P3Candidates(spot, used) ==
    SelectSeq([i \in 1..Len(spot) |-> spot[i].key],
              LAMBDA base :
                  /\ base \notin used
                  /\ base \notin EXCLUDE_BASES
                  /\ usd_notional(DictGet(spot, base)) >= P3_SPOT_MIN)

RowsOf(bases, spot, fut, cache, ohlcv) ==
    [i \in 1..Len(bases) |->
        Row(bases[i], DictGet(spot, bases[i]), DictGet(fut, bases[i]), cache, ohlcv)]

\* The futures symbols compute_pct4h_for_symbol is called for.
FutSymsOf(bases, fut) ==
    {DictGet(fut, bases[i]).symbol :
        i \in {j \in 1..Len(bases) : DictGet(fut, bases[j]) # NoMV}}

\* The whole call: the three tiers, the cache it leaves, and the symbols it
\* asked the cache for.  The cache grows from loop to loop, so a symbol first
\* computed for tier 1 is read from the cache for tiers 2 and 3.
build_priorities(spot, fut, order, cache, ohlcv) ==
    LET c1 == P1Candidates(spot, fut, order)
        p1_full == SortByFut(RowsOf(c1, spot, fut, cache, ohlcv))
        p1_top == Take(p1_full, TOP_N_P1)
        cache1 == CacheAfter(cache, FutSymsOf(c1, fut), ohlcv)
        used1 == UsedAfterP1(p1_top, p1_full)
        c2 == P2Candidates(fut, used1)
        p2_full == SortByFut(RowsOf(c2, spot, fut, cache1, ohlcv))
        p2_top == Take(p2_full, TOP_N_P2)
        cache2 == CacheAfter(cache1, FutSymsOf(c2, fut), ohlcv)
        used2 == UsedAfterP2(used1, p2_top, p2_full)
        c3 == P3Candidates(spot, used2)
        p3_full == SortBySpot(RowsOf(c3, spot, fut, cache2, ohlcv))
        p3_top == Take(p3_full, TOP_N_P3)
        cache3 == CacheAfter(cache2, FutSymsOf(c3, fut), ohlcv)
    IN  [p1 |-> p1_top, p2 |-> p2_top, p3 |-> p3_top, cache |-> cache3,
         asked |-> FutSymsOf(c1, fut) \cup FutSymsOf(c2, fut) \cup FutSymsOf(c3, fut)]

----------------------------------------------------------------------------
(* Bounded inputs of the pure functions *)

\* Longest symbol string drawn for the parsers.
MaxSymLen == 5

Alphabet == {"B", "Q", "/", ":"}

RECURSIVE StringsUpTo(_)
StringsUpTo(n) ==
    IF n = 0 THEN {<<>>}
    ELSE LET shorter == StringsUpTo(n - 1)
         IN  shorter \cup {Append(s, c) : s \in {t \in shorter : Len(t) = n - 1},
                                          c \in Alphabet}

SymInputs == StringsUpTo(MaxSymLen) \cup {None}

\* Volumes and prices drawn for usd_notional: negative, zero, positive.
VolInputs == {-5, 0, 5, 100}

MVInputs ==
    {MarketVol(<<"B", "/", q>>, <<"B">>, <<q>>, l, 0, 0, bv, qv, vw) :
        q \in {"USDT", "BTC"}, l \in VolInputs, bv \in VolInputs,
        qv \in VolInputs, vw \in VolInputs}
    \cup {NoMV}

\* One side of pct_change: absent, or a record with a reported last price, an
\* opening price that may be missing (0) and a native percentage that may be.
PctSide(q) ==
    {MarketVol(<<"B", "/", q>>, <<"B">>, <<q>>, l, o, p, 0, 0, 0) :
        l \in {8, 10, 12}, o \in {0, 8}, p \in {0, 3, -3}}
    \cup {NoMV}

SymIdle == sym = None /\ split = Pending /\ parsed = Pending
NotionalIdle == mv = NoMV /\ notional = 0
PctIdle == mv_spot = NoMV /\ mv_fut = NoMV /\ pct = 0

LoadIdle ==
    /\ LAST_ERROR = None /\ apply_exclusions = TRUE
    /\ best_spot = <<>> /\ best_fut = <<>> /\ n_tickers = 0
    /\ passed_spot = {} /\ passed_fut = {}

TierIdle ==
    /\ set_order = <<>> /\ FOUR_H_PCT_CACHE = <<>>
    /\ p1 = <<>> /\ p2 = <<>> /\ p3 = <<>>

RunIdle ==
    /\ concurrent_updates = FALSE /\ inv = <<>> /\ run_count = 0
    /\ cache_writer = <<>> /\ leaks = {} /\ discards = {} /\ diag_report = None

symVars == <<sym, split, parsed>>
runVars == <<concurrent_updates, inv, run_count, cache_writer, leaks, discards,
             diag_report>>
tierVars == <<set_order, FOUR_H_PCT_CACHE, p1, p2, p3>>
loadVars == <<LAST_ERROR, apply_exclusions, best_spot, best_fut, n_tickers,
              passed_spot, passed_fut>>
notionalVars == <<mv, notional>>
pctVars == <<mv_spot, mv_fut, pct>>

----------------------------------------------------------------------------
(* The symbol parsers applied to one string *)

InitSymbol ==
    /\ pc = "symbol"
    /\ sym \in SymInputs
    /\ split = Pending /\ parsed = Pending
    /\ NotionalIdle /\ PctIdle /\ LoadIdle /\ TierIdle /\ RunIdle

CallSafeSplit ==
    /\ pc = "symbol"
    /\ split' = safe_split_symbol(sym)
    /\ pc' = "done"
    /\ UNCHANGED <<sym, parsed, notionalVars, pctVars, loadVars, tierVars, runVars>>

CallParseSymbol ==
    /\ pc = "symbol"
    /\ parsed' = parse_symbol(sym)
    /\ pc' = "done"
    /\ UNCHANGED <<sym, split, notionalVars, pctVars, loadVars, tierVars, runVars>>

NextSymbol == CallSafeSplit \/ CallParseSymbol

SpecSymbol == InitSymbol /\ [][NextSymbol]_vars

(* usd_notional applied to one record *)

InitNotional ==
    /\ pc = "notional"
    /\ mv \in MVInputs
    /\ notional = 0
    /\ SymIdle /\ PctIdle /\ LoadIdle /\ TierIdle /\ RunIdle

CallUsdNotional ==
    /\ pc = "notional"
    /\ notional' = usd_notional(mv)
    /\ pc' = "done"
    /\ UNCHANGED <<mv, symVars, pctVars, loadVars, tierVars, runVars>>

NextNotional == CallUsdNotional

SpecNotional == InitNotional /\ [][NextNotional]_vars

(* pct_change applied to a spot and a futures record *)

InitPct ==
    /\ pc = "pct"
    /\ mv_spot \in PctSide("USDT")
    /\ mv_fut \in PctSide("USD")
    /\ pct = 0
    /\ SymIdle /\ NotionalIdle /\ LoadIdle /\ TierIdle /\ RunIdle

CallPctChange ==
    /\ pc = "pct"
    /\ pct' = pct_change(mv_spot, mv_fut)
    /\ pc' = "done"
    /\ UNCHANGED <<mv_spot, mv_fut, symVars, notionalVars, loadVars, tierVars, runVars>>

NextPct == CallPctChange

SpecPct == InitPct /\ [][NextPct]_vars

----------------------------------------------------------------------------
(* load_best, src/telegram_volume_bot.py:123-147, one loop iteration per step.
   The exchange's batches are not known in advance: each iteration draws the
   next payload of the batch. *)

\* Payloads load_best iterates over in one call, both markets together.
MaxTickers == 3

TickerSymbols ==
    {<<"A", "/", "USDT">>, <<"A", "/", "USDC", ":", "USDC">>, <<"A", "/", "BTC">>,
     <<"B", "/", "USDT">>, <<"BTC", "/", "USDT">>,
     <<"A">>, <<"/", "USDT">>, None}

Ticker(symbol, quoteVolume) ==
    [symbol |-> symbol, last |-> 0, close |-> 1, open |-> 0, percentage |-> 0,
     baseVolume |-> 6, quoteVolume |-> quoteVolume, vwap |-> 0]

TickerInputs == {Ticker(s, qv) : s \in TickerSymbols, qv \in {0, 5, 7}}

\* The history of filtered payloads after payload t.
Passed(passed, t, excl, stable_only) ==
    IF PassesFilters(t, excl, stable_only)
    THEN passed \cup {<<to_mv(t).base, usd_notional(to_mv(t))>>}
    ELSE passed

InitLoad ==
    /\ pc = "fetch_spot"
    /\ apply_exclusions \in BOOLEAN
    /\ LAST_ERROR = None
    /\ best_spot = <<>> /\ best_fut = <<>> /\ n_tickers = 0
    /\ passed_spot = {} /\ passed_fut = {}
    /\ SymIdle /\ NotionalIdle /\ PctIdle /\ TierIdle /\ RunIdle

\* lines 124-126: the spot batch arrives, or the fetch raises and is recorded.
FetchSpotTickers ==
    /\ pc = "fetch_spot"
    /\ \E resp \in {Raised, <<"batch">>} :
        IF FetchFailed(resp)
        THEN LAST_ERROR' = ErrorString("spot") /\ pc' = "fetch_fut"
        ELSE LAST_ERROR' = LAST_ERROR /\ pc' = "loop_spot"
    /\ UNCHANGED <<apply_exclusions, best_spot, best_fut, n_tickers,
                   passed_spot, passed_fut, symVars, notionalVars, pctVars, tierVars, runVars>>

\* lines 127-134: one iteration of the spot loop.
LoadSpotTicker ==
    /\ pc = "loop_spot"
    /\ n_tickers < MaxTickers
    /\ \E t \in TickerInputs :
        /\ best_spot' = BestStep(best_spot, t, apply_exclusions, TRUE)
        /\ passed_spot' = Passed(passed_spot, t, apply_exclusions, TRUE)
    /\ n_tickers' = n_tickers + 1
    /\ UNCHANGED <<pc, LAST_ERROR, apply_exclusions, best_fut, passed_fut,
                   symVars, notionalVars, pctVars, tierVars, runVars>>

\* The spot batch is exhausted.
EndSpotLoop ==
    /\ pc = "loop_spot"
    /\ pc' = "fetch_fut"
    /\ UNCHANGED <<loadVars, symVars, notionalVars, pctVars, tierVars, runVars>>

\* lines 136-138: the futures batch arrives, or the fetch raises.
FetchFutTickers ==
    /\ pc = "fetch_fut"
    /\ \E resp \in {Raised, <<"batch">>} :
        IF FetchFailed(resp)
        THEN LAST_ERROR' = ErrorString("swap") /\ pc' = "done"
        ELSE LAST_ERROR' = LAST_ERROR /\ pc' = "loop_fut"
    /\ UNCHANGED <<apply_exclusions, best_spot, best_fut, n_tickers,
                   passed_spot, passed_fut, symVars, notionalVars, pctVars, tierVars, runVars>>

\* lines 139-145: one iteration of the futures loop.
LoadFutTicker ==
    /\ pc = "loop_fut"
    /\ n_tickers < MaxTickers
    /\ \E t \in TickerInputs :
        /\ best_fut' = BestStep(best_fut, t, apply_exclusions, FALSE)
        /\ passed_fut' = Passed(passed_fut, t, apply_exclusions, FALSE)
    /\ n_tickers' = n_tickers + 1
    /\ UNCHANGED <<pc, LAST_ERROR, apply_exclusions, best_spot, passed_spot,
                   symVars, notionalVars, pctVars, tierVars, runVars>>

\* line 147: the futures batch is exhausted and load_best returns.
EndFutLoop ==
    /\ pc = "loop_fut"
    /\ pc' = "done"
    /\ UNCHANGED <<loadVars, symVars, notionalVars, pctVars, tierVars, runVars>>

NextLoad ==
    \/ FetchSpotTickers \/ LoadSpotTicker \/ EndSpotLoop
    \/ FetchFutTickers \/ LoadFutTicker \/ EndFutLoop

SpecLoad == InitLoad /\ [][NextLoad]_vars

\* A snapshot holds one entry per base, every filtered payload's base has an
\* entry, and the entry's notional is at least that of every filtered payload
\* of its base.
BestOfPassed(best, passed) ==
    /\ \A i, j \in 1..Len(best) : best[i].key = best[j].key => i = j
    /\ \A i \in 1..Len(best) : best[i].value.base = best[i].key
    /\ \A p \in passed :
        /\ p[1] \in DictKeys(best)
        /\ usd_notional(DictGet(best, p[1])) >= p[2]
    /\ \A k \in DictKeys(best) : <<k, usd_notional(DictGet(best, k))>> \in passed

\* Every entry of the snapshot before a step is still there after it, with
\* the same record or one of strictly greater notional.
ReplacedOnlyByGreater(before, after) ==
    \A k \in DictKeys(before) :
        /\ k \in DictKeys(after)
        /\ \/ DictGet(after, k) = DictGet(before, k)
           \/ usd_notional(DictGet(after, k)) > usd_notional(DictGet(before, k))

\* C3: at every step of load_best each snapshot holds at most one record per
\* base, that record's USD notional is >= the notional of every payload of the
\* base that passed the parse, stable-quote and exclusion filters, and a step
\* replaces an incumbent only by a record of strictly greater notional.
C3_BestRecordPerBase ==
    [][/\ BestOfPassed(best_spot', passed_spot')
       /\ BestOfPassed(best_fut', passed_fut')
       /\ ReplacedOnlyByGreater(best_spot, best_spot')
       /\ ReplacedOnlyByGreater(best_fut, best_fut')]_vars

\* load_best has returned: a base of the spot snapshot had several filtered
\* payloads of different notional, and the futures snapshot holds a record.
C3_Witness ==
    /\ pc = "done"
    /\ \E k \in DictKeys(best_spot) :
        Cardinality({p \in passed_spot : p[1] = k}) >= 2
    /\ best_fut # <<>>

----------------------------------------------------------------------------
(* build_priorities applied to a spot and a futures snapshot *)

\* Bases of the drawn snapshots besides BTC: enough for the caps of tier 1
\* and tier 2 to cut in the same call (TOP_N_P1 + TOP_N_P2 + 1).
NBases == 16

BaseNames ==
    <<"C01", "C02", "C03", "C04", "C05", "C06", "C07", "C08", "C09", "C10",
      "C11", "C12", "C13", "C14", "C15", "C16", "C17", "C18", "C19", "C20">>

\* What a base trades in 24h on each market, in USD; 0: no record in that dict.
Profiles ==
    <<[fut |-> 7000000, spot |-> 4000000],   \* meets the tier-1 floors
      [fut |-> 5000000, spot |-> 500000],    \* exactly at the tier-1 floors
      [fut |-> 6000000, spot |-> 400000],    \* misses the tier-1 spot floor
      [fut |-> 2000000, spot |-> 3200000],   \* at the tier-2 floor, above tier 3's
      [fut |-> 0, spot |-> 3000000]>>        \* exactly at the tier-3 floor

\* The assignments of profiles to n bases, up to renaming the bases: the
\* non-decreasing sequences of n profile numbers.
RECURSIVE Assignments(_)
Assignments(n) ==
    IF n = 0 THEN {<<>>}
    ELSE UNION {{Append(a, k) :
                    k \in (IF a = <<>> THEN 1 ELSE a[Len(a)])..Len(Profiles)} :
                a \in Assignments(n - 1)}

\* A spot record quotes in a stable currency and reports its quote volume; a
\* futures record reports base volume and vwap only.
SpotRecord(name, usd) ==
    MarketVol(<<name, "/", "USDT">>, <<name>>, <<"USDT">>, 10, 8, 0, 0, usd, 0)

FutRecord(name, usd) ==
    MarketVol(<<name, "/", "USDT", ":", "USDT">>, <<name>>, <<"USDT">>,
              10, 8, 0, usd \div 100, 0, 100)

Reverse(q) == [i \in 1..Len(q) |-> q[Len(q) + 1 - i]]

\* The names in the order the exchange lists them, which is the order of both
\* dicts and here of the set as well: BTC first and then C01, C02, ..., or the
\* reverse.
NamesInOrder(n, reversed) ==
    LET names == <<"BTC">> \o SubSeq(BaseNames, 1, n)
    IN  IF reversed THEN Reverse(names) ELSE names

\* USD traded by the named base under assignment a; BTC trades the most.
UsdOf(a, name, market) ==
    IF name = "BTC" THEN 9000000
    ELSE LET i == Find(BaseNames, name, 1)
         IN  IF market = "spot" THEN Profiles[a[i]].spot ELSE Profiles[a[i]].fut

SnapshotOf(a, market, reversed) ==
    LET present == SelectSeq(NamesInOrder(Len(a), reversed),
                             LAMBDA name : UsdOf(a, name, market) > 0)
    IN  SubSeq([i \in 1..Len(present) |->
                   [key |-> <<present[i]>>,
                    value |-> IF market = "spot"
                              THEN SpotRecord(present[i], UsdOf(a, present[i], market))
                              ELSE FutRecord(present[i], UsdOf(a, present[i], market))]],
               1, Len(present))

\* The bases of both dicts, in the order the set intersection iterates
\* over them.
SetOrderOf(a, reversed) ==
    LET both == SelectSeq(NamesInOrder(Len(a), reversed),
                          LAMBDA name : UsdOf(a, name, "spot") > 0
                                        /\ UsdOf(a, name, "fut") > 0)
    IN  SubSeq([i \in 1..Len(both) |-> <<both[i]>>], 1, Len(both))

\* The exchange's answers to fetch_ohlcv: closes of five hourly candles, or an
\* exception.
OhlcvInputs == {<<10, 10, 11, 10, 12>>, Raised}

InitTier ==
    /\ pc = "tier"
    /\ \E a \in Assignments(NBases), reversed \in BOOLEAN :
        /\ best_spot = SnapshotOf(a, "spot", reversed)
        /\ best_fut = SnapshotOf(a, "fut", reversed)
        /\ set_order = SetOrderOf(a, reversed)
    /\ FOUR_H_PCT_CACHE = <<>>
    /\ p1 = <<>> /\ p2 = <<>> /\ p3 = <<>>
    /\ LAST_ERROR = None /\ apply_exclusions = TRUE /\ n_tickers = 0
    /\ passed_spot = {} /\ passed_fut = {}
    /\ SymIdle /\ NotionalIdle /\ PctIdle /\ RunIdle

AllFutSymbols(fut) == {fut[i].value.symbol : i \in 1..Len(fut)}

CallBuildPriorities ==
    /\ pc = "tier"
    /\ \E resp \in OhlcvInputs :
        LET r == build_priorities(best_spot, best_fut, set_order, FOUR_H_PCT_CACHE,
                                  [s \in AllFutSymbols(best_fut) |-> resp])
        IN  /\ p1' = r.p1 /\ p2' = r.p2 /\ p3' = r.p3
            /\ FOUR_H_PCT_CACHE' = r.cache
    /\ pc' = "done"
    /\ UNCHANGED <<set_order, loadVars, symVars, notionalVars, pctVars, runVars>>

NextTier == CallBuildPriorities

SpecTier == InitTier /\ [][NextTier]_vars

----------------------------------------------------------------------------
(* Claims about build_priorities, stated on the snapshots and the tiers *)

Syms(tier) == {tier[i].sym : i \in 1..Len(tier)}

FutUsd(base) == usd_notional(DictGet(best_fut, base))
SpotUsd(base) == usd_notional(DictGet(best_spot, base))

\* The bases that qualify for each tier: in the right dicts, not excluded, at
\* or above the floors, and not used by an earlier tier.
Tier1Floors ==
    {b \in DictKeys(best_spot) \cap DictKeys(best_fut) :
        b \notin EXCLUDE_BASES /\ FutUsd(b) >= P1_FUT_MIN /\ SpotUsd(b) >= P1_SPOT_MIN}

Tier2Floor ==
    {b \in DictKeys(best_fut) : b \notin EXCLUDE_BASES /\ FutUsd(b) >= P2_FUT_MIN}

Tier3Floor ==
    {b \in DictKeys(best_spot) : b \notin EXCLUDE_BASES /\ SpotUsd(b) >= P3_SPOT_MIN}

Tier2Candidates == Tier2Floor \ Syms(p1)
Tier3Candidates == Tier3Floor \ (Syms(p1) \cup Syms(p2))

NoRepeat(tier) == \A i, j \in 1..Len(tier) : tier[i].sym = tier[j].sym => i = j

\* C1: in the result of one build_priorities call no base is in more than one
\* of the three tiers, and no base is twice in one tier.
C1_TiersDisjoint ==
    pc = "done" =>
        /\ Syms(p1) \cap Syms(p2) = {}
        /\ Syms(p1) \cap Syms(p3) = {}
        /\ Syms(p2) \cap Syms(p3) = {}
        /\ NoRepeat(p1) /\ NoRepeat(p2) /\ NoRepeat(p3)

\* A base of tier 1 also meets the tier-3 floor, a base of tier 2 does too,
\* tier 3 is not empty, and the caps of tiers 1 and 2 have cut.
C1_Witness ==
    /\ pc = "done"
    /\ Syms(p1) \cap Tier3Floor # {}
    /\ Syms(p2) \cap Tier3Floor # {}
    /\ Syms(p1) \cap Tier2Floor # {}
    /\ p3 # <<>>

\* tier is the top-n cut of the candidates by key: its rows are candidates
\* and carry their notionals, it holds min(n, number of candidates) of them in
\* non-increasing key order, and no candidate left out has a strictly larger
\* key than a row kept.
TopCut(tier, n, candidates, Key(_)) ==
    /\ Len(tier) <= n
    /\ Len(tier) = Min(n, Cardinality(candidates))
    /\ Syms(tier) \subseteq candidates
    /\ \A i \in 1..Len(tier) :
        /\ tier[i].fut_usd = FutUsd(tier[i].sym)
        /\ tier[i].spot_usd = SpotUsd(tier[i].sym)
    /\ \A i \in 1..(Len(tier) - 1) : Key(tier[i].sym) >= Key(tier[i + 1].sym)
    /\ \A b \in candidates \ Syms(tier) :
        \A i \in 1..Len(tier) : Key(b) <= Key(tier[i].sym)

\* C4: each tier is the top-N cut of its candidates: at most 10, 5 and 5 rows,
\* in non-increasing order of futures notional (tiers 1 and 2) or spot
\* notional (tier 3), and no qualifying, non-excluded, not-yet-used candidate
\* left out has a strictly larger key than a row kept.
C4_TiersAreTopCuts ==
    pc = "done" =>
        /\ TopCut(p1, TOP_N_P1, Tier1Floors, FutUsd)
        /\ TopCut(p2, TOP_N_P2, Tier2Candidates, FutUsd)
        /\ TopCut(p3, TOP_N_P3, Tier3Candidates, SpotUsd)

\* The caps of tier 1 and of tier 2 have cut candidates, tier 1 holds rows of
\* different keys, and tier 3 holds a row.
C4_Witness ==
    /\ pc = "done"
    /\ Cardinality(Tier1Floors) > TOP_N_P1 /\ Len(p1) = TOP_N_P1
    /\ Cardinality(Tier2Candidates) > TOP_N_P2 /\ Len(p2) = TOP_N_P2
    /\ \E i, j \in 1..Len(p1) : FutUsd(p1[i].sym) > FutUsd(p1[j].sym)
    /\ p3 # <<>>

\* C2 as stated: a base that meets the tier-1 floors and is cut by the
\* TOP_N_P1 cap is in neither tier 2 nor tier 3, and a base that meets the
\* tier-2 floor and is cut by the TOP_N_P2 cap is not in tier 3.
C2_CutEntriesDropped ==
    pc = "done" =>
        /\ \A b \in Tier1Floors \ Syms(p1) : b \notin Syms(p2) \cup Syms(p3)
        /\ \A b \in Tier2Candidates \ Syms(p2) : b \notin Syms(p3)

\* C2, amended: a cut entry is dropped from its own tier only and stays a
\* candidate of the later tiers.  A base that meets the tier-1 floors and is cut
\* by the TOP_N_P1 cap is in tier 2 unless tier 2 holds TOP_N_P2 rows of
\* futures notional >= its own; a base cut by the TOP_N_P1 or TOP_N_P2 cap
\* whose spot record meets the tier-3 floor is in tier 3 unless tier 3 holds
\* TOP_N_P3 rows of spot notional >= its own.
C2_CutEntriesDeferred ==
    pc = "done" =>
        /\ \A b \in Tier1Floors \ Syms(p1) :
            \/ b \in Syms(p2)
            \/ /\ Len(p2) = TOP_N_P2
               /\ \A i \in 1..Len(p2) : p2[i].fut_usd >= FutUsd(b)
        /\ \A b \in (Tier1Floors \cup Tier2Floor) \ (Syms(p1) \cup Syms(p2)) :
            b \in Tier3Floor =>
                \/ b \in Syms(p3)
                \/ /\ Len(p3) = TOP_N_P3
                   /\ \A i \in 1..Len(p3) : p3[i].spot_usd >= SpotUsd(b)

\* A base cut by the tier-1 cap is a row of tier 2, and a base cut by the
\* tier-2 cap is a row of tier 3.
C2_Witness ==
    /\ pc = "done"
    /\ (Tier1Floors \ Syms(p1)) \cap Syms(p2) # {}
    /\ (Tier2Candidates \ Syms(p2)) \cap Syms(p3) # {}

----------------------------------------------------------------------------
(* The Telegram handlers, src/telegram_volume_bot.py:243-336.  A handler runs
   on the event loop up to its first await; load_best, build_priorities and
   compute_pct4h_for_symbol run in worker threads (asyncio.to_thread), one
   step each here.  FOUR_H_PCT_CACHE and LAST_ERROR are module globals every
   invocation reads and writes. *)

\* Handler invocations that can be in progress at once.
NSlots == 2

\* Handler invocations started in one behaviour.
MaxRuns == 3

Slots == 1..NSlots

\* load_best's loop over a whole batch, from the first payload to the last.
RECURSIVE LoadSide(_, _, _, _)
LoadSide(best, batch, excl, stable_only) ==
    IF batch = <<>> THEN best
    ELSE LoadSide(BestStep(best, Head(batch), excl, stable_only), Tail(batch),
                  excl, stable_only)

\* load_best, lines 123-147, as one call: the two snapshots and LAST_ERROR
\* after it, for the exchange's answers to the two fetch_tickers calls.
load_best(spot_resp, fut_resp, excl, last_error) ==
    LET spot_tickers == IF FetchFailed(spot_resp) THEN <<>> ELSE spot_resp
        fut_tickers == IF FetchFailed(fut_resp) THEN <<>> ELSE fut_resp
        err1 == IF FetchFailed(spot_resp) THEN ErrorString("spot") ELSE last_error
        err2 == IF FetchFailed(fut_resp) THEN ErrorString("swap") ELSE err1
    IN  [best_spot |-> LoadSide(<<>>, spot_tickers, excl, TRUE),
         best_fut |-> LoadSide(<<>>, fut_tickers, excl, FALSE),
         LAST_ERROR |-> err2]

\* The market the handlers see: what fetch_tickers answers when it answers.
SpotBatch ==
    <<Ticker(<<"A", "/", "USDT">>, 4000000),
      Ticker(<<"BTC", "/", "USDT">>, 9000000)>>

FutBatch ==
    <<Ticker(<<"A", "/", "USDT", ":", "USDT">>, 6000000),
      Ticker(<<"B", "/", "USDT", ":", "USDT">>, 3000000),
      Ticker(<<"BTC", "/", "USDT", ":", "USDT">>, 9000000)>>

\* What fetch_ohlcv answers: five candles (+20%), two candles (+10%), or an
\* exception.
OhlcvRunInputs == {<<10, 10, 11, 10, 12>>, <<10, 11>>, Raised}

\* The base normalize_symbol_text extracts from the message; None when the
\* text holds no ticker.
CoinInputs == {<<"A">>, <<"ZZ">>, None}

IdleInv ==
    [kind |-> "idle", pc |-> "idle", run |-> 0, base |-> None,
     spot |-> <<>>, fut |-> <<>>, failed |-> {}]

Running(i) == inv[i].pc # "idle"

\* A handler can start when a slot is free; without concurrent updates the
\* Application starts it only when no other handler is in progress.
CanStart(i) ==
    /\ ~Running(i)
    /\ run_count < MaxRuns
    /\ concurrent_updates \/ \A j \in Slots : ~Running(j)

Started(i, kind, base) ==
    [inv EXCEPT ![i] = [kind |-> kind, pc |-> "load", run |-> run_count + 1,
                        base |-> base, spot |-> <<>>, fut |-> <<>>, failed |-> {}]]

\* FOUR_H_PCT_CACHE = {} by run r: the resets that drop entries written by a
\* run that is still in progress.
DiscardsBy(r) ==
    {<<r, cache_writer[s]>> :
        s \in {t \in DOMAIN cache_writer :
                \E j \in Slots : Running(j) /\ inv[j].run = cache_writer[t]
                                 /\ inv[j].run # r}}

otherVars == <<pc, symVars, notionalVars, pctVars, apply_exclusions, best_spot,
               best_fut, n_tickers, passed_spot, passed_fut, set_order, p1, p2, p3>>

Init ==
    /\ pc = "bot"
    /\ concurrent_updates \in BOOLEAN
    /\ inv = [i \in Slots |-> IdleInv]
    /\ run_count = 0
    /\ LAST_ERROR = None
    /\ FOUR_H_PCT_CACHE = <<>> /\ cache_writer = <<>>
    /\ leaks = {} /\ discards = {} /\ diag_report = None
    /\ apply_exclusions = TRUE /\ best_spot = <<>> /\ best_fut = <<>>
    /\ n_tickers = 0 /\ passed_spot = {} /\ passed_fut = {}
    /\ set_order = <<>> /\ p1 = <<>> /\ p2 = <<>> /\ p3 = <<>>
    /\ SymIdle /\ NotionalIdle /\ PctIdle

\* screen, lines 243-246: LAST_ERROR and the cache are reset.
ScreenEntry(i) ==
    /\ CanStart(i)
    /\ inv' = Started(i, "screen", None)
    /\ run_count' = run_count + 1
    /\ LAST_ERROR' = None
    /\ FOUR_H_PCT_CACHE' = <<>> /\ cache_writer' = <<>>
    /\ discards' = discards \cup DiscardsBy(run_count + 1)
    /\ UNCHANGED <<concurrent_updates, leaks, diag_report, otherVars>>

\* excel_cmd, lines 264-266: nothing is reset.
ExcelEntry(i) ==
    /\ CanStart(i)
    /\ inv' = Started(i, "excel", None)
    /\ run_count' = run_count + 1
    /\ UNCHANGED <<LAST_ERROR, FOUR_H_PCT_CACHE, cache_writer, discards,
                   concurrent_updates, leaks, diag_report, otherVars>>

\* diag, lines 289-291.
DiagEntry(i) ==
    /\ CanStart(i)
    /\ inv' = Started(i, "diag", None)
    /\ run_count' = run_count + 1
    /\ UNCHANGED <<LAST_ERROR, FOUR_H_PCT_CACHE, cache_writer, discards,
                   concurrent_updates, leaks, diag_report, otherVars>>

\* coin_query, lines 316-323: without a ticker in the text the handler
\* replies and returns; with one it resets the cache.
CoinEntry(i) ==
    /\ CanStart(i)
    /\ \E base \in CoinInputs :
        IF base = None
        THEN /\ inv' = [Started(i, "coin", base) EXCEPT ![i].pc = "reply"]
             /\ UNCHANGED <<FOUR_H_PCT_CACHE, cache_writer, discards>>
        ELSE /\ inv' = Started(i, "coin", base)
             /\ FOUR_H_PCT_CACHE' = <<>> /\ cache_writer' = <<>>
             /\ discards' = discards \cup DiscardsBy(run_count + 1)
    /\ run_count' = run_count + 1
    /\ UNCHANGED <<LAST_ERROR, concurrent_updates, leaks, diag_report, otherVars>>

\* await asyncio.to_thread(load_best, ...): lines 249, 266, 291 (with
\* exclusions) and 324 (without).
HandlerLoadBest(i) ==
    /\ inv[i].pc = "load"
    /\ \E spot_resp \in {SpotBatch, Raised}, fut_resp \in {FutBatch, Raised} :
        LET r == load_best(spot_resp, fut_resp, inv[i].kind # "coin", LAST_ERROR)
        IN  /\ LAST_ERROR' = r.LAST_ERROR
            /\ inv' = [inv EXCEPT
                ![i].spot = r.best_spot,
                ![i].fut = r.best_fut,
                ![i].failed = @ \cup (IF FetchFailed(spot_resp) THEN {"spot"} ELSE {})
                                \cup (IF FetchFailed(fut_resp) THEN {"swap"} ELSE {}),
                ![i].pc = CASE inv[i].kind = "diag" -> "reply"
                            [] inv[i].kind = "coin" -> "compute"
                            [] OTHER -> "build"]
    /\ UNCHANGED <<FOUR_H_PCT_CACHE, cache_writer, discards, run_count,
                   concurrent_updates, leaks, diag_report, otherVars>>

\* The cache's history after run r asked it for the symbols in asked and the
\* cache became after: who wrote the new entries, and which entries of
\* another run were handed to r.
WritersAfter(after, r) ==
    cache_writer @@ [s \in DOMAIN after \ DOMAIN FOUR_H_PCT_CACHE |-> r]

LeaksAfter(asked, r) ==
    leaks \cup {<<r, cache_writer[s]>> :
                    s \in {t \in asked \cap DOMAIN FOUR_H_PCT_CACHE :
                            cache_writer[t] # r}}

\* An order in which set(best_spot) & set(best_fut) iterates.
SetOrders(spot, fut) ==
    LET o == SelectSeq([k \in 1..Len(spot) |-> spot[k].key],
                       LAMBDA b : b \in DictKeys(fut))
    IN  {o, Reverse(o)}

\* await asyncio.to_thread(build_priorities, ...): lines 250 and 267.
HandlerBuildPriorities(i) ==
    /\ inv[i].pc = "build"
    /\ \E resp \in OhlcvRunInputs, order \in SetOrders(inv[i].spot, inv[i].fut) :
        LET r == build_priorities(inv[i].spot, inv[i].fut, order, FOUR_H_PCT_CACHE,
                                  [s \in AllFutSymbols(inv[i].fut) |-> resp])
        IN  /\ FOUR_H_PCT_CACHE' = r.cache
            /\ cache_writer' = WritersAfter(r.cache, inv[i].run)
            /\ leaks' = LeaksAfter(r.asked, inv[i].run)
            /\ inv' = [inv EXCEPT
                ![i].failed = @ \cup (IF resp = Raised
                                         /\ r.asked \ DOMAIN FOUR_H_PCT_CACHE # {}
                                      THEN {"ohlcv"} ELSE {}),
                ![i].pc = "reply"]
    /\ UNCHANGED <<LAST_ERROR, discards, run_count, concurrent_updates,
                   diag_report, otherVars>>

\* coin_query, lines 325-330: the 4h change of the base's futures symbol,
\* when the futures snapshot has the base.
CoinComputePct4h(i) ==
    /\ inv[i].pc = "compute"
    /\ LET f == DictGet(inv[i].fut, inv[i].base)
       IN  IF f = NoMV
           THEN /\ inv' = [inv EXCEPT ![i].pc = "reply"]
                /\ UNCHANGED <<FOUR_H_PCT_CACHE, cache_writer, leaks>>
           ELSE \E resp \in OhlcvRunInputs :
                LET after == CacheAfter(FOUR_H_PCT_CACHE, {f.symbol},
                                        [s \in {f.symbol} |-> resp])
                IN  /\ FOUR_H_PCT_CACHE' = after
                    /\ cache_writer' = WritersAfter(after, inv[i].run)
                    /\ leaks' = LeaksAfter({f.symbol}, inv[i].run)
                    /\ inv' = [inv EXCEPT
                        ![i].failed = @ \cup (IF resp = Raised
                                                 /\ f.symbol \notin DOMAIN FOUR_H_PCT_CACHE
                                              THEN {"ohlcv"} ELSE {}),
                        ![i].pc = "reply"]
    /\ UNCHANGED <<LAST_ERROR, discards, run_count, concurrent_updates,
                   diag_report, otherVars>>

\* The reply is sent and the handler returns; /diag's reply shows LAST_ERROR
\* (line 300).
Reply(i) ==
    /\ inv[i].pc = "reply"
    /\ diag_report' = IF inv[i].kind = "diag" THEN LAST_ERROR ELSE diag_report
    /\ inv' = [inv EXCEPT ![i] = IdleInv]
    /\ UNCHANGED <<LAST_ERROR, FOUR_H_PCT_CACHE, cache_writer, leaks, discards,
                   run_count, concurrent_updates, otherVars>>

Next ==
    \E i \in Slots :
        \/ ScreenEntry(i) \/ ExcelEntry(i) \/ DiagEntry(i) \/ CoinEntry(i)
        \/ HandlerLoadBest(i) \/ HandlerBuildPriorities(i)
        \/ CoinComputePct4h(i) \/ Reply(i)

Spec == Init /\ [][Next]_vars

----------------------------------------------------------------------------
(* Claims about the handlers *)

\* C7: when handler invocations overlap, no invocation is handed by
\* compute_pct4h_for_symbol a cache entry that another invocation wrote, and
\* no invocation's cache reset drops entries of another invocation that is
\* still in progress.
C7_CacheIsolated ==
    leaks = {} /\ discards = {}

\* C8: in a sequential series of runs the cache is empty when a /screen,
\* /excel or ticker-lookup run starts, and no run is handed a 4h value that an
\* earlier run memoized.
C8_CacheEmptyAtRunStart ==
    ~concurrent_updates =>
        /\ \A i \in Slots :
            (inv[i].pc = "load" /\ inv[i].kind \in {"screen", "excel", "coin"})
                => FOUR_H_PCT_CACHE = <<>>
        /\ leaks = {}

\* C10: when a fetch failed during a run (a ticker batch or a candle window),
\* the run reaches its reply with an empty snapshot or a 0 change for that
\* call, and LAST_ERROR holds a diagnostic of a failure of the run.
C10_FetchFailureRecorded ==
    ~concurrent_updates =>
        \A i \in Slots :
            (inv[i].pc = "reply" /\ inv[i].failed # {}) =>
                /\ "spot" \in inv[i].failed => inv[i].spot = <<>>
                /\ "swap" \in inv[i].failed => inv[i].fut = <<>>
                /\ LAST_ERROR \in {ErrorString(w) : w \in inv[i].failed}

----------------------------------------------------------------------------
(* Claims about the pure functions *)

\* The string has the shape the parser's contract requires: after the
\* settlement suffix is stripped, exactly one "/" with both sides non-empty.
WellFormedSymbol(s) ==
    /\ s # None
    /\ LET pair == SplitFirst(s, ":")
       IN  /\ Count(pair, "/") = 1
           /\ SplitOnce(pair, "/")[1] # <<>>
           /\ SplitOnce(pair, "/")[2] # <<>>

\* C5: safe_split_symbol returns a (base, quote) pair only for a well-formed
\* symbol; for every other input (None, no "/", more than one "/", an empty
\* base or quote) it returns None and does not raise.
C5_ParserRejectsMalformed ==
    (split # Pending /\ ~WellFormedSymbol(sym)) => split = None

\* C6: usd_notional never returns a negative value, whatever the sign of the
\* record's quote volume, base volume, vwap and last price.
C6_NotionalNonNegative ==
    pc = "done" => notional >= 0

\* The sides of a pct_change call that are present.
PctSides == {m \in {mv_spot, mv_fut} : m # NoMV}

\* C9: pct_change returns a side's nonzero native percentage when there is
\* one; otherwise (last - open) / open * 100 of a side whose opening price is
\* positive when there is one; otherwise 0.
C9_PctChangeFallback ==
    pc = "done" =>
        IF \E m \in PctSides : m.percentage # 0
        THEN \E m \in PctSides : m.percentage # 0 /\ pct = m.percentage
        ELSE IF \E m \in PctSides : m.open > 0
        THEN \E m \in PctSides : m.open > 0 /\ pct = PctOf(m.last, m.open)
        ELSE pct = 0

====
